---- MODULE Spec2Model ----
(***************************************************************************)
(* The three programs of the repository: control_flow (nested-loop         *)
(* factorial accumulator), data_types (floating-point literals and mixed   *)
(* arithmetic) and variables (bindings, constants, shadowing).             *)
(*                                                                         *)
(* A behaviour is one execution of one entry point.  Program values keep   *)
(* their machine width: u32 and the f64/f32 significands do not fit TLC's  *)
(* 32-bit integers, so natural numbers are carried as little-endian limb   *)
(* sequences and every machine operation is "exact result, then fit to     *)
(* the type" (wrap or trap for integers, round-to-nearest-even for floats).*)
(***************************************************************************)
EXTENDS Integers, Sequences, FiniteSets, TLC

(***************************************************************************)
(* Body applied to the value of e.  TLC passes operator arguments and LET  *)
(* definitions unevaluated; binding through a singleton set evaluates e    *)
(* exactly once, which keeps the arithmetic below linear.                  *)
(***************************************************************************)
Let1(e, Body(_)) == CHOOSE r \in {Body(v) : v \in {e}} : TRUE

(***************************************************************************)
(* Arbitrary-precision naturals: little-endian limbs in 0..Base-1, no high *)
(* zero limb; zero is the empty sequence.  Carries are found by lookahead  *)
(* rather than by recursion over the limbs.                                *)
(***************************************************************************)
Base == 2^15

LimbBits == CHOOSE k \in 1..30 : 2^k = Base

Max0(S) == IF S = {} THEN 0 ELSE CHOOSE m \in S : \A k \in S : k <= m

Norm(a) == Let1(a, LAMBDA u : SubSeq(u, 1, Max0({i \in 1..Len(u) : u[i] # 0})))

\* the natural n, 0 <= n < 2^31, as limbs
Big(n) == Norm(<<n % Base, (n \div Base) % Base, n \div (Base * Base)>>)

Limb(a, i) == IF i <= Len(a) THEN a[i] ELSE 0

\* the TLC integer of a natural below 2^31
Small(a) == Let1(a, LAMBDA u : Limb(u, 1) + Base * (Limb(u, 2) + Base * Limb(u, 3)))

\* a + b for limb sequences, normalised or not
AddV(a, b) ==
    LET n      == IF Len(a) > Len(b) THEN Len(a) ELSE Len(b)
        s(i)   == Limb(a, i) + Limb(b, i)
        c(i)   == IF \E j \in 1..i : s(j) >= Base /\ \A k \in (j + 1)..i : s(k) = Base - 1
                  THEN 1 ELSE 0
    IN  Norm([i \in 1..(n + 1) |-> (s(i) + c(i - 1)) % Base])

Add(a, b) == Let1(<<a, b>>, LAMBDA p : AddV(p[1], p[2]))

\* -1, 0, 1 as a < b, a = b, a > b
Cmp(a, b) ==
    Let1(<<a, b>>, LAMBDA p :
        IF Len(p[1]) # Len(p[2]) THEN (IF Len(p[1]) < Len(p[2]) THEN -1 ELSE 1)
        ELSE Let1(Max0({i \in 1..Len(p[1]) : p[1][i] # p[2][i]}), LAMBDA i :
                  IF i = 0 THEN 0 ELSE IF p[1][i] < p[2][i] THEN -1 ELSE 1))

SubV(a, b) ==
    LET br(i) == IF \E j \in 1..i : a[j] < Limb(b, j)
                                    /\ \A k \in (j + 1)..i : a[k] = Limb(b, k)
                 THEN 1 ELSE 0
    IN  Norm([i \in 1..Len(a) |-> (a[i] - Limb(b, i) - br(i - 1) + Base) % Base])

\* a - b for a >= b
Sub(a, b) == Let1(<<a, b>>, LAMBDA p : SubV(p[1], p[2]))

\* a * m for one limb m
MulSmall(a, m) ==
    Let1(<<a, m>>, LAMBDA p :
        AddV([i \in 1..Len(p[1]) |-> (p[1][i] * p[2]) % Base],
             <<0>> \o [i \in 1..Len(p[1]) |-> (p[1][i] * p[2]) \div Base]))

RECURSIVE SumRows(_, _, _)
\* the sum of rows lo..hi, halving the range
SumRows(rows, lo, hi) ==
    IF lo > hi THEN <<>>
    ELSE IF lo = hi THEN rows[lo]
    ELSE Add(SumRows(rows, lo, (lo + hi) \div 2), SumRows(rows, (lo + hi) \div 2 + 1, hi))

\* a * b: the rows a * b[j] * Base^(j-1), summed
Mul(a, b) ==
    Let1(<<a, b>>, LAMBDA p :
    Let1([j \in 1..Len(p[2]) |-> [i \in 1..(j - 1) |-> 0] \o MulSmall(p[1], p[2][j])],
         LAMBDA rows : Norm(SumRows(rows, 1, Len(rows)))))

\* 2^k
Pow2(k) ==
    Let1(k, LAMBDA v :
        [i \in 1..(v \div LimbBits + 1) |->
            IF i = v \div LimbBits + 1 THEN 2^(v % LimbBits) ELSE 0])

RECURSIVE PowR(_, _)
PowR(b, k) ==
    IF k = 0 THEN Big(1)
    ELSE Let1(PowR(b, k \div 2), LAMBDA h :
         Let1(Mul(h, h), LAMBDA h2 : IF k % 2 = 0 THEN h2 ELSE MulSmall(h2, b)))

\* b^k for one limb b, by squaring
Pow(b, k) == IF b = 2 THEN Pow2(k) ELSE Let1(k, LAMBDA v : PowR(b, v))

\* the least k with a < 2^k
BitLen(a) ==
    Let1(a, LAMBDA u :
        IF u = <<>> THEN 0
        ELSE LimbBits * (Len(u) - 1)
             + (CHOOSE k \in 1..LimbBits : 2^(k - 1) <= u[Len(u)] /\ u[Len(u)] < 2^k))

IsOdd(a) == Let1(a, LAMBDA u : u # <<>> /\ u[1] % 2 = 1)

\* the next quotient limb: the largest q with d * q <= r, for r < d * Base and
\* d of top limb >= Base / 2, where the estimate e from the top limbs is at
\* most two too large
QDigit(r, d, e) ==
    Let1(<<r, d, IF e > Base - 1 THEN Base - 1 ELSE e>>, LAMBDA p :
         IF Cmp(MulSmall(p[2], p[3]), p[1]) <= 0 THEN p[3]
         ELSE IF Cmp(MulSmall(p[2], p[3] - 1), p[1]) <= 0 THEN p[3] - 1
         ELSE p[3] - 2)

\* one step of long division by d: the limb l is brought down to the
\* remainder st.r, and the quotient limb found is put before st.q
DivStep(l, d, st) ==
    Let1(<<Norm(<<l>> \o st.r), st.q>>, LAMBDA p :
    Let1(QDigit(p[1], d, (Limb(p[1], Len(d) + 1) * Base + Limb(p[1], Len(d))) \div d[Len(d)]),
         LAMBDA qd : [r |-> Sub(p[1], MulSmall(d, qd)), q |-> <<qd>> \o p[2]]))

RECURSIVE DivFrom(_, _, _, _)
\* long division: limbs i..1 of n still to bring down
DivFrom(n, d, i, st) ==
    IF i = 0 THEN st
    ELSE Let1(DivStep(n[i], d, st), LAMBDA s2 : DivFrom(n, d, i - 1, s2))

\* n \div d for d of top limb >= Base / 2 and n >= d
DivNormal(n, d) ==
    Let1(<<n, d>>, LAMBDA p :
        Norm(DivFrom(p[1], p[2], Len(p[1]) - Len(p[2]) + 1,
                     [r |-> SubSeq(p[1], Len(p[1]) - Len(p[2]) + 2, Len(p[1])),
                      q |-> <<>>]).q))

\* quotient and remainder of n by d, d > 0: both are scaled so that the
\* divisor's top limb is at least Base / 2, which leaves the quotient as it is
DivMod(n, d) ==
    Let1(<<n, d, Base \div (d[Len(d)] + 1)>>, LAMBDA p :
        IF Cmp(p[1], p[2]) < 0 THEN [q |-> <<>>, r |-> p[1]]
        ELSE Let1(DivNormal(MulSmall(p[1], p[3]), MulSmall(p[2], p[3])), LAMBDA q :
                  [q |-> q, r |-> Sub(p[1], Mul(q, p[2]))]))

\* the decimal digits ds, four at a time from the right: chunk j as a number
Chunk(ds, j) ==
    LET d(i) == IF i >= 1 THEN ds[i] ELSE 0
        e    == Len(ds) - 4 * (j - 1)
    IN  1000 * d(e - 3) + 100 * d(e - 2) + 10 * d(e - 1) + d(e)

\* the natural written by the decimal digits ds
FromDigits(ds) ==
    Let1(ds, LAMBDA u :
    Let1([j \in 1..((Len(u) + 3) \div 4) |-> MulSmall(Pow(10, 4 * (j - 1)), Chunk(u, j))],
         LAMBDA rows : SumRows(rows, 1, Len(rows))))

\* ds without its leading zeros, keeping one digit
StripZeros(ds) ==
    Let1(ds, LAMBDA u :
        IF \A i \in 1..Len(u) : u[i] = 0 THEN <<0>>
        ELSE SubSeq(u, CHOOSE i \in 1..Len(u) : u[i] # 0 /\ \A j \in 1..(i - 1) : u[j] = 0,
                    Len(u)))

\* the four decimal digits of a small n < 10^4
Digits4(n) == <<n \div 1000, (n \div 100) % 10, (n \div 10) % 10, n % 10>>

\* digits 4j-3..4j of a from the right, as a number below 10^4
ChunkOf(a, j) == Small(DivMod(DivMod(a, Pow(10, 4 * (j - 1))).q, Big(10000)).r)

\* the decimal digits of a, "0" for zero: a < 2^k has at most 31k/100 + 1,
\* taken four at a time
Decimal(a) ==
    Let1(a, LAMBDA u :
    Let1(((BitLen(u) * 31) \div 100 + 4) \div 4, LAMBDA w :
    Let1(<<>> \o [j \in 1..w |-> Digits4(ChunkOf(u, w + 1 - j))], LAMBDA cs :
         StripZeros([i \in 1..(4 * w) |-> cs[(i - 1) \div 4 + 1][((i - 1) % 4) + 1]]))))

(***************************************************************************)
(* u32 (control_flow).  An operation yields whether its exact result fits  *)
(* the type, and the value a wrapping build stores.                        *)
(***************************************************************************)
U32Bits == 32

InU32(a) == BitLen(a) <= U32Bits

WrapU32(a) == DivMod(a, Pow(2, U32Bits)).r

U32(n) == Big(n)

MulU32(a, b) == Let1(Mul(a, b), LAMBDA m : [ovf |-> ~InU32(m), val |-> WrapU32(m)])

AddU32(a, b) == Let1(Add(a, b), LAMBDA m : [ovf |-> ~InU32(m), val |-> WrapU32(m)])

SubU32(a, b) ==
    Let1(<<a, b>>, LAMBDA p :
        IF Cmp(p[1], p[2]) >= 0
        THEN [ovf |-> FALSE, val |-> Sub(p[1], p[2])]
        ELSE [ovf |-> TRUE, val |-> Sub(Add(p[1], Pow(2, U32Bits)), p[2])])

(***************************************************************************)
(* i32 (variables, data_types): values are TLC integers, operations go     *)
(* through sign and magnitude so that no intermediate leaves 32 bits.      *)
(***************************************************************************)
I32Bits == 32

Mag(n) == Let1(n, LAMBDA v : IF v >= 0 THEN Big(v) ELSE Add(Big(-(v + 1)), Big(1)))

Signed(n) == [neg |-> n < 0, mag |-> Mag(n)]

InI32(s) ==
    Let1(<<s.neg, Cmp(s.mag, Pow(2, I32Bits - 1))>>, LAMBDA p :
        IF p[1] THEN p[2] <= 0 ELSE p[2] < 0)

\* two's complement of the exact result s, as the i32 it wraps to
WrapI32(s) ==
    Let1(<<s.neg, DivMod(s.mag, Pow(2, I32Bits)).r>>, LAMBDA p :
    Let1(IF p[1] /\ p[2] # <<>> THEN Sub(Pow(2, I32Bits), p[2]) ELSE p[2], LAMBDA w :
         IF Cmp(w, Pow(2, I32Bits - 1)) < 0 THEN Small(w)
         ELSE -Small(Sub(Sub(Pow(2, I32Bits), w), Big(1))) - 1))

SignedAdd(x, y) ==
    Let1(<<x, y>>, LAMBDA p :
        IF p[1].neg = p[2].neg THEN [neg |-> p[1].neg, mag |-> Add(p[1].mag, p[2].mag)]
        ELSE IF Cmp(p[1].mag, p[2].mag) >= 0
             THEN [neg |-> p[1].neg /\ p[1].mag # p[2].mag, mag |-> Sub(p[1].mag, p[2].mag)]
             ELSE [neg |-> p[2].neg, mag |-> Sub(p[2].mag, p[1].mag)])

SignedMul(x, y) ==
    Let1(<<x.neg # y.neg, Mul(x.mag, y.mag)>>, LAMBDA p :
        [neg |-> p[1] /\ p[2] # <<>>, mag |-> p[2]])

AddI32(a, b) ==
    Let1(SignedAdd(Signed(a), Signed(b)), LAMBDA s : [ovf |-> ~InI32(s), val |-> WrapI32(s)])

MulI32(a, b) ==
    Let1(SignedMul(Signed(a), Signed(b)), LAMBDA s : [ovf |-> ~InI32(s), val |-> WrapI32(s)])

(***************************************************************************)
(* Binary floating point (data_types).  A finite value is                  *)
(* (-1)^neg * m * 2^e with m a natural of at most p bits (exactly p for a  *)
(* normal number, e = emin for a subnormal one), so equal values have      *)
(* equal records.  Every operation is the exact rational result rounded    *)
(* to nearest, ties to even.  Operands are finite; a result too large for  *)
(* the format is inf.  digits is the number of significant decimal digits  *)
(* that always suffices to tell two values of the format apart.            *)
(***************************************************************************)
F64 == [p |-> 53, emin |-> -1074, emax |-> 971, digits |-> 17]

F32 == [p |-> 24, emin |-> -149, emax |-> 104, digits |-> 9]

\* n * 2^k / d as a fraction, k of either sign
Scaled(n, d, k) ==
    Let1(k, LAMBDA v :
        [n |-> IF v >= 0 THEN Mul(n, Pow(2, v)) ELSE n,
         d |-> IF v >= 0 THEN d ELSE Mul(d, Pow(2, -v))])

\* whether n / d >= 2^k
AtLeastPow2(n, d, k) == Let1(Scaled(n, d, -k), LAMBDA s : Cmp(s.n, s.d) >= 0)

\* the exponent e of the value nearest n / d: n / (d * 2^e) lies in
\* 2^(p-1) .. 2^p (below, at emin)
RoundExp(n, d, t) ==
    Let1(<<n, d, BitLen(n) - BitLen(d) - t.p>>, LAMBDA a :
    Let1(IF AtLeastPow2(a[1], a[2], a[3] + t.p) THEN a[3] + 1 ELSE a[3], LAMBDA e1 :
         IF e1 < t.emin THEN t.emin ELSE e1))

\* q + (r / d) rounded to an integer, ties to even
RoundInt(q, r, d) ==
    Let1(<<q, Cmp(MulSmall(r, 2), d)>>, LAMBDA p :
         IF p[2] > 0 \/ (p[2] = 0 /\ IsOdd(p[1])) THEN Add(p[1], Big(1)) ELSE p[1])

\* n / d rounded to an integer, ties to even
RoundDiv(n, d) == Let1(<<DivMod(n, d), d>>, LAMBDA x : RoundInt(x[1].q, x[1].r, x[2]))

\* the value (-1)^neg * q * 2^e, q of at most p + 1 bits, in format t
Pack(neg, q, e, t) ==
    Let1(<<q, e, BitLen(q) > t.p>>, LAMBDA a :
    Let1(<<IF a[3] THEN DivMod(a[1], Big(2)).q ELSE a[1], IF a[3] THEN a[2] + 1 ELSE a[2]>>,
         LAMBDA me :
         IF me[2] > t.emax
         THEN [neg |-> neg, m |-> <<>>, e |-> 0, inf |-> TRUE]
         ELSE [neg |-> neg, m |-> me[1], e |-> IF me[1] = <<>> THEN 0 ELSE me[2],
               inf |-> FALSE]))

\* the value of format t nearest the rational r = (-1)^neg * n / d
RoundRat(r, t) ==
    Let1(r, LAMBDA v :
        IF v.n = <<>> THEN [neg |-> v.neg, m |-> <<>>, e |-> 0, inf |-> FALSE]
        ELSE Let1(<<RoundExp(v.n, v.d, t), v>>, LAMBDA a :
                  Pack(a[2].neg,
                       Let1(Scaled(a[2].n, a[2].d, -a[1]), LAMBDA s : RoundDiv(s.n, s.d)),
                       a[1], t)))

\* the exact value of a finite float
RatOf(f) ==
    Let1(f, LAMBDA v :
        [neg |-> v.neg,
         n   |-> IF v.e >= 0 THEN Mul(v.m, Pow(2, v.e)) ELSE v.m,
         d   |-> IF v.e >= 0 THEN Big(1) ELSE Pow(2, -v.e)])

RatSub(x, y) ==
    Let1(<<x.neg, y.neg, Mul(x.n, y.d), Mul(y.n, x.d), Mul(x.d, y.d)>>, LAMBDA p :
        IF p[1] # p[2] THEN [neg |-> p[1], n |-> Add(p[3], p[4]), d |-> p[5]]
        ELSE IF Cmp(p[3], p[4]) >= 0
             THEN [neg |-> p[1] /\ p[3] # p[4], n |-> Sub(p[3], p[4]), d |-> p[5]]
             ELSE [neg |-> ~p[1], n |-> Sub(p[4], p[3]), d |-> p[5]])

RatMul(x, y) == [neg |-> x.neg # y.neg, n |-> Mul(x.n, y.n), d |-> Mul(x.d, y.d)]

\* x / y for y # 0
RatDiv(x, y) == [neg |-> x.neg # y.neg, n |-> Mul(x.n, y.d), d |-> Mul(x.d, y.n)]

FSub(a, b, t) == Let1(<<RatOf(a), RatOf(b)>>, LAMBDA p : RoundRat(RatSub(p[1], p[2]), t))

FMul(a, b, t) == Let1(<<RatOf(a), RatOf(b)>>, LAMBDA p : RoundRat(RatMul(p[1], p[2]), t))

FDiv(a, b, t) == Let1(<<RatOf(a), RatOf(b)>>, LAMBDA p : RoundRat(RatDiv(p[1], p[2]), t))

\* `n as f64` for an i32 n
IntToFloat(n, t) == RoundRat([neg |-> n < 0, n |-> Mag(n), d |-> Big(1)], t)

\* a decimal literal: the digits ds with the last frac of them after the point
FloatLit(ds, frac, t) ==
    RoundRat([neg |-> FALSE, n |-> FromDigits(ds), d |-> Pow(10, frac)], t)

(***************************************************************************)
(* Display ({} in println!).  Integers print their decimal digits; floats  *)
(* print, without an exponent, the shortest decimal that reads back as the *)
(* same value (the closest such when several have that length).  Text is a *)
(* sequence of strings, to be read concatenated.                           *)
(***************************************************************************)
DigitChar(d) == <<"0", "1", "2", "3", "4", "5", "6", "7", "8", "9">>[d + 1]

Chars(ds) == Let1(ds, LAMBDA u : [i \in 1..Len(u) |-> DigitChar(u[i])])

Zeros(k) == [i \in 1..k |-> "0"]

DisplayU32(a) == Chars(Decimal(a))

DisplayI32(n) == (IF n < 0 THEN <<"-">> ELSE <<>>) \o Chars(Decimal(Mag(n)))

\* the least k with n / d < 10^k, for n > 0
DecExp(n, d) ==
    Let1(Len(Decimal(n)) - Len(Decimal(d)), LAMBDA k0 :
        IF (IF k0 >= 0 THEN Cmp(n, Mul(d, Pow(10, k0))) < 0
                       ELSE Cmp(Mul(n, Pow(10, -k0)), d) < 0)
        THEN k0 ELSE k0 + 1)

\* c * 10^x as a fraction
DecRat(c, x) ==
    [neg |-> FALSE,
     n   |-> IF x >= 0 THEN Mul(c, Pow(10, x)) ELSE c,
     d   |-> IF x >= 0 THEN Big(1) ELSE Pow(10, -x)]

Abs(f) == [f EXCEPT !.neg = FALSE]

\* whether the decimal c * 10^x reads back as f
ReadsBack(c, x, f, t) == c # <<>> /\ RoundRat(DecRat(c, x), t) = f

\* n / d * 10^(-x), as its integer part q, the rest r and the divisor d
DivPow10(n, d, x) ==
    Let1(IF x >= 0 THEN <<n, Mul(d, Pow(10, x))>> ELSE <<Mul(n, Pow(10, -x)), d>>, LAMBDA s :
    Let1(DivMod(s[1], s[2]), LAMBDA dm : [q |-> dm.q, r |-> dm.r, d |-> s[2]]))

\* of the decimals lo * 10^x and (lo + 1) * 10^x around f, the closer of
\* those that read back as f (near: lo is at least as close)
Pick(lo, near, x, f, t, k, nd) ==
    Let1(<<lo, Add(lo, Big(1)), ReadsBack(lo, x, f, t), ReadsBack(Add(lo, Big(1)), x, f, t)>>,
         LAMBDA c :
         IF c[3] /\ (near \/ ~c[4]) THEN [ok |-> TRUE, c |-> c[1], x |-> x]
         ELSE IF c[4]
              THEN (IF c[2] = Pow(10, nd) THEN [ok |-> TRUE, c |-> Big(1), x |-> k]
                                          ELSE [ok |-> TRUE, c |-> c[2], x |-> x])
              ELSE [ok |-> FALSE, c |-> <<>>, x |-> 0])

\* the nd-digit decimals next to f (f > 0, k = DecExp of f): whether one
\* reads back as f, and the closer of those that do, as c * 10^x
Candidate(f, t, k, nd) ==
    Let1(DivPow10(RatOf(f).n, RatOf(f).d, k - nd), LAMBDA dm :
         Pick(dm.q, Cmp(MulSmall(dm.r, 2), dm.d) <= 0, k - nd, f, t, k, nd))

\* the shortest decimal that reads back as f: t.digits digits always do
Shortest(f, t, k) ==
    Let1({n \in 1..t.digits : Candidate(f, t, k, n).ok}, LAMBDA S :
         Candidate(f, t, k, CHOOSE n \in S : \A j \in S : n <= j))

\* the digits ds scaled by 10^x, written without an exponent
Plain(ds, x) ==
    Let1(<<ds, x, Len(ds) + x>>, LAMBDA p :
        IF p[2] >= 0 THEN p[1] \o Zeros(p[2])
        ELSE IF p[3] > 0
             THEN SubSeq(p[1], 1, p[3]) \o <<".">> \o SubSeq(p[1], p[3] + 1, Len(p[1]))
             ELSE <<"0", ".">> \o Zeros(-p[3]) \o p[1])

DisplayFloat(f, t) ==
    Let1(<<f, IF f.neg THEN <<"-">> ELSE <<>>>>, LAMBDA v :
        IF v[1].inf THEN v[2] \o <<"i", "n", "f">>
        ELSE IF v[1].m = <<>> THEN v[2] \o <<"0">>
        ELSE Let1(Shortest(Abs(v[1]), t, DecExp(RatOf(v[1]).n, RatOf(v[1]).d)), LAMBDA s :
                  v[2] \o Plain(Chars(Decimal(s.c)), s.x)))

(***************************************************************************)
(* Program state.  entry is the (crate, function) that was started: each   *)
(* crate's main, and variables::shadowing_example, which no main calls and *)
(* is run on its own.  pc is the (function, line) about to execute, stack  *)
(* the return addresses, out the lines printed so far.  A local variable   *)
(* holds the sequence of its live bindings, innermost last: a let appends, *)
(* the end of the enclosing block removes, the name denotes the last.      *)
(* overflow_checks is the build profile: a debug build panics on integer   *)
(* overflow, a release build wraps.                                        *)
(***************************************************************************)
VARIABLES entry, overflow_checks, status, pc, stack, out,
          count, result, num, factorial,
          age, x,
          my_f32, my_f64, sum, difference, multiply, divide

cfLocals == <<count, result, num, factorial>>
varLocals == <<age, x>>
dtLocals == <<my_f32, my_f64, sum, difference, multiply, divide>>
vars == <<entry, overflow_checks, status, pc, stack, out, cfLocals, varLocals, dtLocals>>

Val(v) == v[Len(v)]
Bind(v, a) == Append(v, a)
Assign(v, a) == [v EXCEPT ![Len(v)] = a]
Drop(v) == SubSeq(v, 1, Len(v) - 1)

Entries ==
    { <<"control_flow", "main", 2>>, <<"data_types", "main", 22>>,
      <<"variables", "main", 41>>, <<"variables", "shadowing_example", 28>> }

Init ==
    /\ \E e \in Entries : entry = <<e[1], e[2]>> /\ pc = <<e[2], e[3]>>
    /\ overflow_checks \in BOOLEAN
    /\ status = "running"
    /\ stack = <<>>
    /\ out = <<>>
    /\ count = <<>> /\ result = <<>> /\ num = <<>> /\ factorial = <<>>
    /\ age = <<>> /\ x = <<>>
    /\ my_f32 = <<>> /\ my_f64 = <<>>
    /\ sum = <<>> /\ difference = <<>> /\ multiply = <<>> /\ divide = <<>>

At(crate, fn, line) == status = "running" /\ entry[1] = crate /\ pc = <<fn, line>>

Goto(line) == pc' = <<pc[1], line>> /\ UNCHANGED <<entry, overflow_checks, status, stack>>

Println(line) == out' = Append(out, line)

\* an integer operation that overflowed under overflow checks: the panic
Panic == status' = "panicked" /\ UNCHANGED <<entry, overflow_checks, pc, stack>>

Call(fn, line, ret) ==
    /\ pc' = <<fn, line>>
    /\ stack' = <<<<pc[1], ret>>>> \o stack
    /\ UNCHANGED <<entry, overflow_checks, status>>

\* the end of a function body: back to the caller, or the process exits
Return ==
    /\ IF stack = <<>>
       THEN status' = "exited" /\ UNCHANGED <<pc, stack>>
       ELSE pc' = Head(stack) /\ stack' = Tail(stack) /\ status' = status
    /\ UNCHANGED <<entry, overflow_checks>>

(***************************************************************************)
(* control_flow: main                                                      *)
(***************************************************************************)
InitialCount == 4
InitialResult == 0
InitialNum == 10
InitialFactorial == 1

cf_let_count ==
    /\ At("control_flow", "main", 2)
    /\ count' = Bind(count, U32(InitialCount))
    /\ Goto(3)
    /\ UNCHANGED <<out, result, num, factorial, varLocals, dtLocals>>

cf_let_result ==
    /\ At("control_flow", "main", 3)
    /\ result' = Bind(result, U32(InitialResult))
    /\ Goto(5)
    /\ UNCHANGED <<out, count, num, factorial, varLocals, dtLocals>>

\* variants of the outer check: off by one (the loop left at count == 1), and
\* left out (the loop never left)
OuterDoneAtOne == Val(count) = U32(1)

OuterDoneOmitted == FALSE

\* 'counting_up: loop { if count == 0 { break; }
OuterDone == Val(count) = U32(0)

counting_up ==
    /\ At("control_flow", "main", 5)
    /\ IF OuterDone THEN Goto(24) ELSE Goto(8)
    /\ UNCHANGED <<out, cfLocals, varLocals, dtLocals>>

\* variant: an inner bound whose factorial exceeds u32 (13! > 2^32)
cf_let_num_13 ==
    /\ At("control_flow", "main", 8)
    /\ num' = Bind(num, U32(InitialNum + 3))
    /\ Goto(9)
    /\ UNCHANGED <<out, count, result, factorial, varLocals, dtLocals>>

cf_let_num ==
    /\ At("control_flow", "main", 8)
    /\ num' = Bind(num, U32(InitialNum))
    /\ Goto(9)
    /\ UNCHANGED <<out, count, result, factorial, varLocals, dtLocals>>

\* variant: the accumulator started at zero
cf_let_factorial_zero ==
    /\ At("control_flow", "main", 9)
    /\ factorial' = Bind(factorial, U32(0))
    /\ Goto(11)
    /\ UNCHANGED <<out, count, result, num, varLocals, dtLocals>>

cf_let_factorial ==
    /\ At("control_flow", "main", 9)
    /\ factorial' = Bind(factorial, U32(InitialFactorial))
    /\ Goto(11)
    /\ UNCHANGED <<out, count, result, num, varLocals, dtLocals>>

\* variant: the inner loop left one step early, at num == 2
InnerDoneAtTwo == Val(num) = U32(2)

\* if num == 1 { break factorial; }
InnerDone == Val(num) = U32(1)

inner_loop ==
    /\ At("control_flow", "main", 11)
    /\ IF InnerDone THEN Goto(12) ELSE Goto(14)
    /\ UNCHANGED <<out, cfLocals, varLocals, dtLocals>>

\* variant: result = <the value> in place of result += <the value>
break_factorial_assign ==
    /\ At("control_flow", "main", 12)
    /\ result' = Assign(result, Val(factorial))
    /\ Goto(20)
    /\ UNCHANGED <<out, count, num, factorial, varLocals, dtLocals>>

\* break factorial: the inner loop yields, and result += <the value> completes
break_factorial ==
    /\ At("control_flow", "main", 12)
    /\ LET r == AddU32(Val(result), Val(factorial))
       IN  IF r.ovf /\ overflow_checks
           THEN Panic /\ UNCHANGED result
           ELSE result' = Assign(result, r.val) /\ Goto(20)
    /\ UNCHANGED <<out, count, num, factorial, varLocals, dtLocals>>

\* if count == 0 { continue 'counting_up; }: the inner block's locals end
ContinueOuter == Val(count) = U32(0)

continue_counting_up ==
    /\ At("control_flow", "main", 14)
    /\ IF ContinueOuter
       THEN /\ Goto(5)
            /\ num' = Drop(num)
            /\ factorial' = Drop(factorial)
       ELSE /\ Goto(17)
            /\ UNCHANGED <<num, factorial>>
    /\ UNCHANGED <<out, count, result, varLocals, dtLocals>>

\* factorial *= num;
multiply_factorial ==
    /\ At("control_flow", "main", 17)
    /\ LET r == MulU32(Val(factorial), Val(num))
       IN  IF r.ovf /\ overflow_checks
           THEN Panic /\ UNCHANGED factorial
           ELSE factorial' = Assign(factorial, r.val) /\ Goto(18)
    /\ UNCHANGED <<out, count, result, num, varLocals, dtLocals>>

\* num -= 1;
decrement_num ==
    /\ At("control_flow", "main", 18)
    /\ LET r == SubU32(Val(num), U32(1))
       IN  IF r.ovf /\ overflow_checks
           THEN Panic /\ UNCHANGED num
           ELSE num' = Assign(num, r.val) /\ Goto(11)
    /\ UNCHANGED <<out, count, result, factorial, varLocals, dtLocals>>

\* println!("count = {count}, factorial : {factorial}");
print_count ==
    /\ At("control_flow", "main", 20)
    /\ Println(<<"count = ">> \o DisplayU32(Val(count))
               \o <<", factorial : ">> \o DisplayU32(Val(factorial)))
    /\ Goto(21)
    /\ UNCHANGED <<cfLocals, varLocals, dtLocals>>

\* count -= 1; and the end of the loop body, where num and factorial end
decrement_count ==
    /\ At("control_flow", "main", 21)
    /\ LET r == SubU32(Val(count), U32(1))
       IN  IF r.ovf /\ overflow_checks
           THEN Panic /\ UNCHANGED <<count, num, factorial>>
           ELSE /\ count' = Assign(count, r.val)
                /\ num' = Drop(num)
                /\ factorial' = Drop(factorial)
                /\ Goto(5)
    /\ UNCHANGED <<out, result, varLocals, dtLocals>>

\* println!("Result = {result}");
print_result ==
    /\ At("control_flow", "main", 24)
    /\ Println(<<"Result = ">> \o DisplayU32(Val(result)))
    /\ Goto(25)
    /\ UNCHANGED <<cfLocals, varLocals, dtLocals>>

cf_main_end ==
    /\ At("control_flow", "main", 25)
    /\ count' = Drop(count)
    /\ result' = Drop(result)
    /\ Return
    /\ UNCHANGED <<out, num, factorial, varLocals, dtLocals>>

(***************************************************************************)
(* variables                                                               *)
(***************************************************************************)
HOURS_IN_DAY == 24
AGE == 25

\* immutable_example();
call_immutable_example ==
    /\ At("variables", "main", 41)
    /\ Call("immutable_example", 5, 42)
    /\ UNCHANGED <<out, cfLocals, varLocals, dtLocals>>

immutable_let_age ==
    /\ At("variables", "immutable_example", 5)
    /\ age' = Bind(age, 25)
    /\ Goto(6)
    /\ UNCHANGED <<out, x, cfLocals, dtLocals>>

immutable_print ==
    /\ At("variables", "immutable_example", 6)
    /\ Println(<<"Your immutalbe age is  ">> \o DisplayI32(Val(age)))
    /\ Goto(7)
    /\ UNCHANGED <<cfLocals, varLocals, dtLocals>>

immutable_end ==
    /\ At("variables", "immutable_example", 7)
    /\ age' = Drop(age)
    /\ Return
    /\ UNCHANGED <<out, x, cfLocals, dtLocals>>

\* mutable_example();
call_mutable_example ==
    /\ At("variables", "main", 42)
    /\ Call("mutable_example", 10, 43)
    /\ UNCHANGED <<out, cfLocals, varLocals, dtLocals>>

mutable_let_age ==
    /\ At("variables", "mutable_example", 10)
    /\ age' = Bind(age, 25)
    /\ Goto(11)
    /\ UNCHANGED <<out, x, cfLocals, dtLocals>>

mutable_print ==
    /\ At("variables", "mutable_example", 11)
    /\ Println(<<"Your mutalbe age is  ">> \o DisplayI32(Val(age)))
    /\ Goto(12)
    /\ UNCHANGED <<cfLocals, varLocals, dtLocals>>

\* variant: the reassignment lost
mutable_assign_lost ==
    /\ At("variables", "mutable_example", 12)
    /\ Goto(13)
    /\ UNCHANGED <<out, cfLocals, varLocals, dtLocals>>

\* age = 26;
mutable_assign ==
    /\ At("variables", "mutable_example", 12)
    /\ age' = Assign(age, 26)
    /\ Goto(13)
    /\ UNCHANGED <<out, x, cfLocals, dtLocals>>

mutable_print_new ==
    /\ At("variables", "mutable_example", 13)
    /\ Println(<<"Your mutalbe new age is  ">> \o DisplayI32(Val(age)))
    /\ Goto(14)
    /\ UNCHANGED <<cfLocals, varLocals, dtLocals>>

mutable_end ==
    /\ At("variables", "mutable_example", 14)
    /\ age' = Drop(age)
    /\ Return
    /\ UNCHANGED <<out, x, cfLocals, dtLocals>>

\* variant: main calling shadowing_example where it calls const_example
call_shadowing_example ==
    /\ At("variables", "main", 43)
    /\ Call("shadowing_example", 28, 45)
    /\ UNCHANGED <<out, cfLocals, varLocals, dtLocals>>

\* const_example();
call_const_example ==
    /\ At("variables", "main", 43)
    /\ Call("const_example", 18, 45)
    /\ UNCHANGED <<out, cfLocals, varLocals, dtLocals>>

const_print ==
    /\ At("variables", "const_example", 18)
    /\ Println(<<"You const varialbe age is ">> \o DisplayI32(AGE))
    /\ Goto(19)
    /\ UNCHANGED <<cfLocals, varLocals, dtLocals>>

const_end ==
    /\ At("variables", "const_example", 19)
    /\ Return
    /\ UNCHANGED <<out, cfLocals, varLocals, dtLocals>>

print_hours ==
    /\ At("variables", "main", 45)
    /\ Println(<<"Your Global varialbe hours in a day is ">> \o DisplayI32(HOURS_IN_DAY))
    /\ Goto(46)
    /\ UNCHANGED <<cfLocals, varLocals, dtLocals>>

var_main_end ==
    /\ At("variables", "main", 46)
    /\ Return
    /\ UNCHANGED <<out, cfLocals, varLocals, dtLocals>>

\* shadowing_example: let x = 5;
shadowing_let_x ==
    /\ At("variables", "shadowing_example", 28)
    /\ x' = Bind(x, 5)
    /\ Goto(30)
    /\ UNCHANGED <<out, age, cfLocals, dtLocals>>

\* let x = x + 1;  a second binding in the same block
shadowing_let_x_plus ==
    /\ At("variables", "shadowing_example", 30)
    /\ LET r == AddI32(Val(x), 1)
       IN  IF r.ovf /\ overflow_checks
           THEN Panic /\ UNCHANGED x
           ELSE x' = Bind(x, r.val) /\ Goto(33)
    /\ UNCHANGED <<out, age, cfLocals, dtLocals>>

\* { let x = x * 2;  a binding of the nested block
shadowing_let_x_inner ==
    /\ At("variables", "shadowing_example", 33)
    /\ LET r == MulI32(Val(x), 2)
       IN  IF r.ovf /\ overflow_checks
           THEN Panic /\ UNCHANGED x
           ELSE x' = Bind(x, r.val) /\ Goto(34)
    /\ UNCHANGED <<out, age, cfLocals, dtLocals>>

shadowing_print_inner ==
    /\ At("variables", "shadowing_example", 34)
    /\ Println(<<"The value of x in the inner scope is: ">> \o DisplayI32(Val(x)))
    /\ Goto(35)
    /\ UNCHANGED <<cfLocals, varLocals, dtLocals>>

\* variant: the nested block's x outliving the block
shadowing_block_end_keep ==
    /\ At("variables", "shadowing_example", 35)
    /\ Goto(37)
    /\ UNCHANGED <<out, cfLocals, varLocals, dtLocals>>

\* }  the nested block ends, and its x with it
shadowing_block_end ==
    /\ At("variables", "shadowing_example", 35)
    /\ x' = Drop(x)
    /\ Goto(37)
    /\ UNCHANGED <<out, age, cfLocals, dtLocals>>

shadowing_print ==
    /\ At("variables", "shadowing_example", 37)
    /\ Println(<<"The value of x is: ">> \o DisplayI32(Val(x)))
    /\ Goto(38)
    /\ UNCHANGED <<cfLocals, varLocals, dtLocals>>

shadowing_end ==
    /\ At("variables", "shadowing_example", 38)
    /\ x' = Drop(Drop(x))
    /\ Return
    /\ UNCHANGED <<out, age, cfLocals, dtLocals>>

(***************************************************************************)
(* data_types                                                              *)
(***************************************************************************)
call_floating_type ==
    /\ At("data_types", "main", 22)
    /\ Call("floating_type", 2, 23)
    /\ UNCHANGED <<out, cfLocals, varLocals, dtLocals>>

\* let my_f32 : f32 = 21.321654651651651;
let_my_f32 ==
    /\ At("data_types", "floating_type", 2)
    /\ my_f32' = Bind(my_f32,
                      FloatLit(<<2, 1, 3, 2, 1, 6, 5, 4, 6, 5, 1, 6, 5, 1, 6, 5, 1>>, 15, F32))
    /\ Goto(3)
    /\ UNCHANGED <<out, my_f64, sum, difference, multiply, divide, cfLocals, varLocals>>

\* let my_f64 : f64 = 21.21354651654165165416;
let_my_f64 ==
    /\ At("data_types", "floating_type", 3)
    /\ my_f64' = Bind(my_f64,
                      FloatLit(<<2, 1, 2, 1, 3, 5, 4, 6, 5, 1, 6, 5, 4, 1, 6, 5, 1, 6, 5, 4, 1, 6>>,
                               20, F64))
    /\ Goto(5)
    /\ UNCHANGED <<out, my_f32, sum, difference, multiply, divide, cfLocals, varLocals>>

print_my_f32 ==
    /\ At("data_types", "floating_type", 5)
    /\ Println(<<"My F32 : ">> \o DisplayFloat(Val(my_f32), F32))
    /\ Goto(6)
    /\ UNCHANGED <<cfLocals, varLocals, dtLocals>>

print_my_f64 ==
    /\ At("data_types", "floating_type", 6)
    /\ Println(<<"My F64 : ">> \o DisplayFloat(Val(my_f64), F64))
    /\ Goto(7)
    /\ UNCHANGED <<cfLocals, varLocals, dtLocals>>

floating_type_end ==
    /\ At("data_types", "floating_type", 7)
    /\ my_f32' = Drop(my_f32)
    /\ my_f64' = Drop(my_f64)
    /\ Return
    /\ UNCHANGED <<out, sum, difference, multiply, divide, cfLocals, varLocals>>

call_numeric_operation ==
    /\ At("data_types", "main", 23)
    /\ Call("numeric_operation", 10, 24)
    /\ UNCHANGED <<out, cfLocals, varLocals, dtLocals>>

\* let sum = 5 + 5;
let_sum ==
    /\ At("data_types", "numeric_operation", 10)
    /\ LET r == AddI32(5, 5)
       IN  IF r.ovf /\ overflow_checks
           THEN Panic /\ UNCHANGED sum
           ELSE sum' = Bind(sum, r.val) /\ Goto(12)
    /\ UNCHANGED <<out, my_f32, my_f64, difference, multiply, divide, cfLocals, varLocals>>

\* variant: the operands of the difference exchanged
let_difference_swapped ==
    /\ At("data_types", "numeric_operation", 12)
    /\ difference' = Bind(difference,
                          FSub(FloatLit(<<6, 2, 3>>, 2, F64), FloatLit(<<5, 5>>, 1, F64), F64))
    /\ Goto(14)
    /\ UNCHANGED <<out, my_f32, my_f64, sum, multiply, divide, cfLocals, varLocals>>

\* let difference = 5.5 - 6.23;
let_difference ==
    /\ At("data_types", "numeric_operation", 12)
    /\ difference' = Bind(difference,
                          FSub(FloatLit(<<5, 5>>, 1, F64), FloatLit(<<6, 2, 3>>, 2, F64), F64))
    /\ Goto(14)
    /\ UNCHANGED <<out, my_f32, my_f64, sum, multiply, divide, cfLocals, varLocals>>

\* let multiply = 5.5 * 20 as f64;
let_multiply ==
    /\ At("data_types", "numeric_operation", 14)
    /\ multiply' = Bind(multiply,
                        FMul(FloatLit(<<5, 5>>, 1, F64), IntToFloat(20, F64), F64))
    /\ Goto(16)
    /\ UNCHANGED <<out, my_f32, my_f64, sum, difference, divide, cfLocals, varLocals>>

\* let divide = (5 as f64) / 5.5;
let_divide ==
    /\ At("data_types", "numeric_operation", 16)
    /\ divide' = Bind(divide,
                      FDiv(IntToFloat(5, F64), FloatLit(<<5, 5>>, 1, F64), F64))
    /\ Goto(18)
    /\ UNCHANGED <<out, my_f32, my_f64, sum, difference, multiply, cfLocals, varLocals>>

print_numeric ==
    /\ At("data_types", "numeric_operation", 18)
    /\ Println(<<"Sum : ">> \o DisplayI32(Val(sum))
               \o <<", Difference : ">> \o DisplayFloat(Val(difference), F64)
               \o <<", Multiple : ">> \o DisplayFloat(Val(multiply), F64)
               \o <<", Divide : ">> \o DisplayFloat(Val(divide), F64))
    /\ Goto(19)
    /\ UNCHANGED <<cfLocals, varLocals, dtLocals>>

numeric_operation_end ==
    /\ At("data_types", "numeric_operation", 19)
    /\ sum' = Drop(sum)
    /\ difference' = Drop(difference)
    /\ multiply' = Drop(multiply)
    /\ divide' = Drop(divide)
    /\ Return
    /\ UNCHANGED <<out, my_f32, my_f64, cfLocals, varLocals>>

dt_main_end ==
    /\ At("data_types", "main", 24)
    /\ Return
    /\ UNCHANGED <<out, cfLocals, varLocals, dtLocals>>

(***************************************************************************)
(* The programs                                                            *)
(***************************************************************************)
control_flow_main ==
    \/ cf_let_count \/ cf_let_result \/ counting_up \/ cf_let_num \/ cf_let_factorial
    \/ inner_loop \/ break_factorial \/ continue_counting_up \/ multiply_factorial
    \/ decrement_num \/ print_count \/ decrement_count \/ print_result \/ cf_main_end

variables_main ==
    \/ call_immutable_example \/ immutable_let_age \/ immutable_print \/ immutable_end
    \/ call_mutable_example \/ mutable_let_age \/ mutable_print \/ mutable_assign
    \/ mutable_print_new \/ mutable_end
    \/ call_const_example \/ const_print \/ const_end \/ print_hours \/ var_main_end

shadowing_example ==
    \/ shadowing_let_x \/ shadowing_let_x_plus \/ shadowing_let_x_inner
    \/ shadowing_print_inner \/ shadowing_block_end \/ shadowing_print \/ shadowing_end

data_types_main ==
    \/ call_floating_type \/ let_my_f32 \/ let_my_f64 \/ print_my_f32 \/ print_my_f64
    \/ floating_type_end
    \/ call_numeric_operation \/ let_sum \/ let_difference \/ let_multiply \/ let_divide
    \/ print_numeric \/ numeric_operation_end \/ dt_main_end

Next == control_flow_main \/ variables_main \/ shadowing_example \/ data_types_main

Spec == Init /\ [][Next]_vars

\* control_flow's process, once started, keeps executing until it exits or
\* panics: nothing but its own statements decides whether it takes a step
FairSpec == Spec /\ WF_vars(control_flow_main)

(***************************************************************************)
(* Properties.  A printed line is compared as the sequence of its pieces:  *)
(* the format string's literal parts, and one string per character of a    *)
(* displayed value.                                                        *)
(***************************************************************************)
IsPrefix(s, t) == Len(s) <= Len(t) /\ s = SubSeq(t, 1, Len(s))

CfMain == entry = <<"control_flow", "main">>
VarMain == entry = <<"variables", "main">>
ShadowingRun == entry = <<"variables", "shadowing_example">>
DtMain == entry = <<"data_types", "main">>

Exited == status = "exited"

\* the lines of out whose first piece is head
LinesOf(head) == {i \in 1..Len(out) : out[i][1] = head}

(***************************************************************************)
(* control_flow                                                            *)
(***************************************************************************)
TenFactorial == <<"3", "6", "2", "8", "8", "0", "0">>

FiveLines ==
    /\ Len(out) = 5
    /\ \A i \in 1..4 : /\ out[i][1] = "count = "
                       /\ out[i][2] = DigitChar(5 - i)
                       /\ out[i][3] = ", factorial : "
    /\ out[5][1] = "Result = "

\* C1: a run of control_flow's main always terminates normally, and what it
\* has printed at termination, and for ever after, is exactly five lines: the
\* per-iteration lines of count 4, 3, 2, 1 in that order and then the one
\* Result line; nothing after it, and no line for count = 0.
C1_TerminatesWithFiveLines == <>[](CfMain => Exited /\ FiveLines)

C1_Witness == CfMain /\ Exited /\ Len(out) = 5 /\ out[4][2] = "1" /\ out[5][1] = "Result = "

\* C2: whenever the per-iteration line is about to be printed, count is one
\* of 4, 3, 2, 1 and factorial is 3628800 whichever it is; and every
\* per-iteration line printed shows 3628800.
C2_FactorialAtPrint ==
    CfMain =>
        /\ At("control_flow", "main", 20) =>
               /\ Val(count) \in {U32(c) : c \in 1..4}
               /\ Val(factorial) = U32(3628800)
        /\ \A i \in LinesOf("count = ") : SubSeq(out[i], 4, Len(out[i])) = TenFactorial

C2_Witness ==
    /\ At("control_flow", "main", 21)
    /\ Val(count) = U32(1)
    /\ Cardinality(LinesOf("count = ")) = 4

\* C3: when the final line is about to be printed result is 14515200, which
\* is what the Result line shows; after each inner loop, result is the value
\* it yielded times the number of outer iterations so far, from result = 0.
C3_ResultAtPrint ==
    CfMain =>
        /\ At("control_flow", "main", 24) => Val(result) = U32(14515200)
        /\ At("control_flow", "main", 20) =>
               Val(result) = Mul(U32(3628800), Sub(U32(5), Val(count)))
        /\ \A i \in LinesOf("Result = ") :
               out[i] = <<"Result = ", "1", "4", "5", "1", "5", "2", "0", "0">>

C3_Witness ==
    /\ At("control_flow", "main", 25)
    /\ Val(result) = U32(14515200)
    /\ LinesOf("Result = ") = {5}

\* C4: no u32 operation of control_flow's main overflows or underflows: the
\* exact result of each factorial *= num, result += .., num -= 1 and
\* count -= 1 about to execute lies in 0..2^32-1, every value held does, and
\* the run never panics.
C4_NoOverflow ==
    CfMain =>
        /\ status # "panicked"
        /\ At("control_flow", "main", 17) => ~MulU32(Val(factorial), Val(num)).ovf
        /\ At("control_flow", "main", 12) => ~AddU32(Val(result), Val(factorial)).ovf
        /\ At("control_flow", "main", 18) => ~SubU32(Val(num), U32(1)).ovf
        /\ At("control_flow", "main", 21) => ~SubU32(Val(count), U32(1)).ovf
        /\ \A v \in {count, result, num, factorial} : v # <<>> => InU32(Val(v))

C4_Witness ==
    /\ At("control_flow", "main", 12)
    /\ Val(result) = U32(10886400)
    /\ Val(factorial) = U32(3628800)

\* C9: control inside the inner loop finds count in 1..4, never 0, so the
\* test of continue 'counting_up is false whenever it is made and the
\* continue is never taken.
C9_ContinueUnreachable ==
    (CfMain /\ status = "running" /\ pc[2] \in {11, 12, 14, 17, 18}) =>
        /\ Val(count) \in {U32(c) : c \in 1..4}
        /\ ~ContinueOuter

C9_Witness == At("control_flow", "main", 14) /\ Val(count) = U32(1) /\ Val(num) = U32(2)

FactorialBound == CfMain /\ factorial # <<>>

\* C10: factorial, while it is bound, is at least 1; a step of the inner loop
\* leaves it at least what it was; and a smaller value is only ever seen
\* when the next outer iteration binds it anew, to 1.
C10_FactorialMonotone ==
    /\ [](FactorialBound => Cmp(Val(factorial), U32(1)) >= 0)
    /\ [][/\ (FactorialBound /\ factorial' # <<>>) =>
                 Cmp(Val(factorial'), Val(factorial)) >= 0
          /\ (CfMain /\ factorial = <<>> /\ factorial' # <<>>) =>
                 pc = <<"main", 9>> /\ Val(factorial') = U32(1)]_vars

C10_Witness ==
    /\ At("control_flow", "main", 11)
    /\ Val(count) = U32(3)
    /\ Val(factorial) = U32(1)
    /\ Len(out) = 1

(***************************************************************************)
(* variables                                                               *)
(***************************************************************************)
VariablesLines ==
    << <<"Your immutalbe age is  ", "2", "5">>,
       <<"Your mutalbe age is  ", "2", "5">>,
       <<"Your mutalbe new age is  ", "2", "6">>,
       <<"You const varialbe age is ", "2", "5">>,
       <<"Your Global varialbe hours in a day is ", "2", "4">> >>

\* C5: a run of variables' main prints, in order, the five lines of ages 25,
\* 25, 26, of AGE 25 and of HOURS_IN_DAY 24, and nothing else: what is
\* printed is at every moment a prefix of them, and all of them at exit; the
\* age printed second is 25 and the one printed third 26.
C5_VariablesOutput ==
    VarMain =>
        /\ IsPrefix(out, VariablesLines)
        /\ Exited => out = VariablesLines
        /\ At("variables", "mutable_example", 11) => Val(age) = 25
        /\ At("variables", "mutable_example", 13) => Val(age) = 26

C5_Witness == VarMain /\ Exited /\ Len(out) = 5

ShadowingLines ==
    << <<"The value of x in the inner scope is: ", "1", "2">>,
       <<"The value of x is: ", "6">> >>

\* C6 as claimed: a run of variables' main has, when it exits, executed the
\* shadowing demonstration, which printed the nested-block x (12) and then
\* the outer x (6).
C6_ShadowingInRun ==
    (VarMain /\ Exited) =>
        \E i, j \in 1..Len(out) : i < j /\ out[i] = ShadowingLines[1] /\ out[j] = ShadowingLines[2]

\* C6: a run of variables' main executes the immutable, mutable and scoped
\* constant demonstrations and prints the global constant, each printing at
\* least one line by the time it exits; it never executes shadowing_example:
\* control is never in it, x is never bound, and no line of it is printed.
C6_RunWithoutShadowing ==
    VarMain =>
        /\ pc[1] \in {"main", "immutable_example", "mutable_example", "const_example"}
        /\ x = <<>>
        /\ \A i \in 1..Len(out) : out[i][1] \notin {ShadowingLines[1][1], ShadowingLines[2][1]}
        /\ Exited => \A head \in {"Your immutalbe age is  ", "Your mutalbe age is  ",
                                  "Your mutalbe new age is  ", "You const varialbe age is ",
                                  "Your Global varialbe hours in a day is "} :
                         LinesOf(head) # {}

C6_Witness == VarMain /\ Exited /\ LinesOf("Your Global varialbe hours in a day is ") = {5}

\* C7: in shadowing_example x is 5, then a second x = 6 beside it; the nested
\* block's x is computed from that 6 and is 12, the value printed inside the
\* block; after the block x is the 6 again, and that is printed.
C7_Shadowing ==
    ShadowingRun =>
        /\ status # "panicked"
        /\ At("variables", "shadowing_example", 30) => x = <<5>>
        /\ At("variables", "shadowing_example", 33) => x = <<5, 6>>
        /\ At("variables", "shadowing_example", 34) => x = <<5, 6, 12>>
        /\ At("variables", "shadowing_example", 35) => out = <<ShadowingLines[1]>>
        /\ At("variables", "shadowing_example", 37) => x = <<5, 6>> /\ Val(x) = 6
        /\ IsPrefix(out, ShadowingLines)
        /\ Exited => out = ShadowingLines

C7_Witness == ShadowingRun /\ Exited /\ Len(out) = 2

(***************************************************************************)
(* data_types                                                              *)
(***************************************************************************)
Neg(f) == [f EXCEPT !.neg = TRUE]

AtNumericPrint == At("data_types", "numeric_operation", 18)

\* C8 as claimed: the four values numeric_operation has computed when it
\* prints are 10, the f64 -0.73, the f64 110 and the f64 nearest 10/11.
C8_DifferenceIsMinus073 ==
    AtNumericPrint =>
        /\ Val(sum) = 10
        /\ Val(difference) = Neg(FloatLit(<<7, 3>>, 2, F64))
        /\ Val(multiply) = IntToFloat(110, F64)
        /\ Val(divide) = RoundRat([neg |-> FALSE, n |-> Big(10), d |-> Big(11)], F64)

NumericLine ==
    <<"Sum : ", "1", "0",
      ", Difference : ", "-", "0", ".", "7", "3", "0", "0", "0", "0", "0", "0", "0", "0",
                         "0", "0", "0", "0", "0", "4",
      ", Multiple : ", "1", "1", "0",
      ", Divide : ", "0", ".", "9", "0", "9", "0", "9", "0", "9", "0", "9", "0", "9", "0",
                     "9", "0", "9", "1">>

\* |f - n / d| < 10^(-k) for a finite float f
Within(f, neg, n, d, k) ==
    Let1(RatSub(RatOf(f), [neg |-> neg, n |-> Big(n), d |-> Big(d)]), LAMBDA r :
         Cmp(Mul(r.n, Pow(10, k)), r.d) < 0)

\* C8: the four values numeric_operation has computed when it prints are the
\* i32 10; the f64 -6575255455960928 * 2^-53, which is within 10^-15 of
\* -0.73 and is not the f64 -0.73; the f64 110 exactly; and the f64 nearest
\* 10/11, within 10^-16 of it.  They are printed in that order in one line:
\* Sum : 10, Difference : -0.7300000000000004, Multiple : 110,
\* Divide : 0.9090909090909091.
C8_NumericOperation ==
    DtMain =>
        /\ AtNumericPrint =>
               /\ Val(sum) = 10
               /\ Val(difference) = [neg |-> TRUE, inf |-> FALSE, e |-> -53,
                                     m |-> FromDigits(<<6, 5, 7, 5, 2, 5, 5, 4,
                                                        5, 5, 9, 6, 0, 9, 2, 8>>)]
               /\ Within(Val(difference), TRUE, 73, 100, 15)
               /\ Val(difference) # Neg(FloatLit(<<7, 3>>, 2, F64))
               /\ Val(multiply) = IntToFloat(110, F64)
               /\ Val(divide) = RoundRat([neg |-> FALSE, n |-> Big(10), d |-> Big(11)], F64)
               /\ Within(Val(divide), FALSE, 10, 11, 16)
        /\ LinesOf("Sum : ") \subseteq {3}
        /\ \A i \in LinesOf("Sum : ") : out[i] = NumericLine

C8_Witness == At("data_types", "numeric_operation", 19) /\ LinesOf("Sum : ") = {3}

====
